---- MODULE Spec2Model ----
(***************************************************************************)
(* A model of the flat-file persistence layer of the flashcards web        *)
(* application (src/main.py): the users and flashcards CSV tables, the     *)
(* legacy-format migration, and the service functions built on them.       *)
(*                                                                         *)
(* A file is the sequence of CSV records it holds, each record a sequence  *)
(* of string fields; the first record is the header.  csv.DictReader and   *)
(* csv.writer are modelled by what they do to such records.                *)
(*                                                                         *)
(* Where a write can be cut short or two calls overlap (SpecUsers,         *)
(* SpecFail, SpecRace) a file is held as its text, character for           *)
(* character, and read through CsvParse: a cut write leaves a text that    *)
(* ends inside a record, and the next append goes on from there.           *)
(*                                                                         *)
(* A system call that fails is an input of register, whose handler         *)
(* catches the exception and goes on serving, and of the steps of a        *)
(* migration run.  The flashcard service functions are modelled for calls  *)
(* whose system calls succeed: a flashcards file that a failed             *)
(* init_flashcards_csv has left without its header, as a failed            *)
(* init_users_csv leaves the users file in SpecUsers, is not among the     *)
(* states of the specifications of the flashcard service.                  *)
(***************************************************************************)
EXTENDS Integers, Sequences, FiniteSets, TLC

VARIABLES fs,    \* the directory: path |-> file content, for the paths that exist
          now,   \* the wall clock, in seconds
          old,   \* history: fs as it was when the last operation started
          ret,   \* history: the last operation, its arguments and what it returned
          hist,  \* history: what the operations before the last one did
          calls  \* the calls in progress: thread |-> the locals of its call

vars == <<fs, now, old, ret, hist, calls>>

----------------------------------------------------------------------------
(* Bounds of the model. *)

MaxId == 3          \* no create beyond this id (Spec, SpecImg, SpecColl, SpecMig, SpecWeb)
MaxRows == 2        \* no create on a table of this many rows (SpecMig, SpecWeb)
MaxLegacyRows == 2  \* rows of the legacy file found at start (SpecMig, SpecFail, SpecWeb)
MaxScanRows == 3    \* rows of the table found at start (SpecNextId)
MaxScanCreates == 2 \* creates on top of the table found at start (SpecNextId)
MaxUsers == 2       \* no register on a users table of this many rows (SpecUsers)
MaxTime == 1        \* the clock stops here (SpecMig, SpecFail)
MaxFrameRows == 3   \* rows of the table found at start (SpecFrame)
MaxFailures == 1    \* system calls that fail in a behaviour (SpecUsers, SpecFail)

----------------------------------------------------------------------------
(* Paths and headers. *)

USERS_CSV == "users.csv"
FLASHCARDS_CSV == "flashcards.csv"

UsersHeader == <<"name", "email", "password", "created_at">>

FlashcardsHeader ==
  <<"id", "user_email", "name", "question", "answer",
    "image_question", "image_answer", "collection", "created_at">>

\* The header of a file written before ids, names, images and collections existed.
LegacyHeader == <<"user_email", "question", "answer", "created_at">>

\* Python's None: a DictReader field the record lacks, an argument given as None.
None == "<None>"

\* A keyword argument the caller left out: the parameter takes its default.
Omitted == "<omitted>"

DefaultArg(v, default) == IF v = Omitted THEN default ELSE v

----------------------------------------------------------------------------
(* Strings. *)

Digits == <<"0", "1", "2", "3", "4", "5", "6", "7", "8", "9">>

\* str(n) for n >= 0: the decimal digits.
RECURSIVE Str(_)
Str(n) == IF n < 10 THEN Digits[n + 1] ELSE Str(n \div 10) \o Digits[(n % 10) + 1]

\* The largest integer an id string of the model can denote.
MaxParse == 20

\* int(s): the strings of the model that parse, canonical or not ("05" is 5).
IntParses(s) == (\E n \in 0..MaxParse : Str(n) = s) \/ s \in {"05", "007"}

IntOf(s) ==
  CASE s = "05" -> 5
    [] s = "007" -> 7
    [] OTHER -> CHOOSE n \in 0..MaxParse : Str(n) = s

\* c.lower() for one character.
UpperCase == "ABCDEFGHIJKLMNOPQRSTUVWXYZ"
LowerCase == "abcdefghijklmnopqrstuvwxyz"

LowerChar(c) ==
  IF \E i \in 1..Len(UpperCase) : SubSeq(UpperCase, i, i) = c
  THEN LET i == CHOOSE i \in 1..Len(UpperCase) : SubSeq(UpperCase, i, i) = c
       IN  SubSeq(LowerCase, i, i)
  ELSE c

RECURSIVE LowerChars(_)
LowerChars(s) ==
  IF s = "" THEN ""
  ELSE LowerChar(SubSeq(s, 1, 1)) \o LowerChars(SubSeq(s, 2, Len(s)))

\* s.lower(): the strings the operations are called with, as a table; any
\* other string, as a cut write can leave in a file, character by character.
Lower(s) ==
  CASE s \in {"A@x.com", "a@X.com", "A@X.COM", "a@x.com"} -> "a@x.com"
    [] s \in {"B@x.com", "b@X.com", "b@x.com"} -> "b@x.com"
    [] s \in {"C@x.com", "c@x.com"} -> "c@x.com"
    [] s = "Math" -> "math"
    [] s = None -> None
    [] OTHER -> LowerChars(s)

\* datetime.now().strftime('%Y-%m-%d %H:%M:%S') at clock reading t < 10.
Strftime(t) == "2024-01-01 00:00:0" \o Str(t)

\* len(s) for the passwords of the model.
StrLen(s) ==
  CASE s = "" -> 0
    [] s = "abc" -> 3
    [] s = "secret" -> 6
    [] s = "hunter22" -> 8
    [] OTHER -> 7

----------------------------------------------------------------------------
(* Sequences. *)

Range(s) == {s[i] : i \in 1..Len(s)}

Max(S) == CHOOSE x \in S : \A y \in S : y <= x

\* The last place of x in s: of two columns of one name, dict(zip(...))
\* keeps the later.
IndexOf(s, x) == Max({i \in 1..Len(s) : s[i] = x})

----------------------------------------------------------------------------
(* The file system. *)

exists(f, p) == p \in DOMAIN f

\* open(p, 'w') ... close: p now holds exactly content.
WriteFile(f, p, content) ==
  [q \in DOMAIN f \cup {p} |-> IF q = p THEN content ELSE f[q]]

\* open(p, 'a'); writer.writerow(rec)
AppendFile(f, p, rec) ==
  WriteFile(f, p, IF exists(f, p) THEN Append(f[p], rec) ELSE <<rec>>)

\* os.rename(src, dst): dst is replaced when it exists (POSIX).
Rename(f, src, dst) ==
  [q \in (DOMAIN f \ {src}) \cup {dst} |-> IF q = dst THEN f[src] ELSE f[q]]

----------------------------------------------------------------------------
(* csv.DictReader and csv.writer. *)

\* The row dictionaries DictReader yields: the first record names the fields,
\* a record shorter than the header reads None for the fields it lacks, and
\* the fields beyond the header are not under any name.
DictRow(header, rec) ==
  [k \in Range(header) |->
     IF IndexOf(header, k) <= Len(rec) THEN rec[IndexOf(header, k)] ELSE None]

DictReader(content) ==
  IF content = <<>> THEN <<>>
  ELSE [i \in 1..(Len(content) - 1) |-> DictRow(content[1], content[i + 1])]

\* row[k]: the caller has checked that k is a key.
\* row.get(k, default)
DictGet(row, k, default) == IF k \in DOMAIN row THEN row[k] ELSE default

\* row[k] = v
DictSet(row, k, v) == [q \in DOMAIN row \cup {k} |-> IF q = k THEN v ELSE row[q]]

\* What csv.writer writes for a value: None is written as the empty field.
CsvField(v) == IF v = None THEN "" ELSE v

\* The record the rewriting loops write for a row dictionary.
CardRecord(card) ==
  << CsvField(card["id"]), CsvField(card["user_email"]),
     CsvField(DictGet(card, "name", "")),
     CsvField(card["question"]), CsvField(card["answer"]),
     CsvField(DictGet(card, "image_question", "")),
     CsvField(DictGet(card, "image_answer", "")),
     CsvField(DictGet(card, "collection", "")),
     CsvField(card["created_at"]) >>

RECURSIVE CardRecords(_)
CardRecords(cards) ==
  IF cards = <<>> THEN <<>>
  ELSE <<CardRecord(Head(cards))>> \o CardRecords(Tail(cards))

\* The file the rewriting loops leave: the current header, then every card.
Rewrite(f, cards) == WriteFile(f, FLASHCARDS_CSV, <<FlashcardsHeader>> \o CardRecords(cards))

----------------------------------------------------------------------------
(* The file as text: what csv.writer puts into a file and what csv.reader
   reads from it, character for character. *)

\* What csv.writer writes for a record whose fields need no quoting (no
\* comma, quote or line end in them, and more than one field or a non-empty
\* one): the fields joined by commas, then '\r\n'.
RECURSIVE CsvJoin(_)
CsvJoin(rec) ==
  IF Len(rec) = 1 THEN rec[1]
  ELSE rec[1] \o "," \o CsvJoin(Tail(rec))

CsvLine(rec) == CsvJoin(rec) \o "\r\n"

RECURSIVE CsvText(_)
CsvText(content) ==
  IF content = <<>> THEN ""
  ELSE CsvLine(Head(content)) \o CsvText(Tail(content))

\* The pieces of text between the characters of Seps, in order; with
\* keepEmpty an empty piece counts.
RECURSIVE PiecesFrom(_, _, _, _)
PiecesFrom(text, Seps, keepEmpty, start) ==
  IF start > Len(text) + 1 THEN <<>>
  ELSE LET stops == {i \in start..Len(text) : SubSeq(text, i, i) \in Seps}
           stop == IF stops = {} THEN Len(text) + 1
                   ELSE CHOOSE i \in stops : \A j \in stops : i <= j
           piece == SubSeq(text, start, stop - 1)
       IN  (IF piece = "" /\ ~keepEmpty THEN <<>> ELSE <<piece>>)
           \o PiecesFrom(text, Seps, keepEmpty, stop + 1)

\* What csv.reader reads from a text without quotes: '\r\n', '\r' or '\n'
\* ends a line, a comma ends a field, and a line without characters gives no
\* record (DictReader skips it).
CsvFields(line) == PiecesFrom(line, {","}, TRUE, 1)

CsvParse(text) ==
  LET lines == PiecesFrom(text, {"\r", "\n"}, FALSE, 1)
  IN  [k \in 1..Len(lines) |-> CsvFields(lines[k])]

\* write(text) at offset 0 of a file holding current: the characters past
\* the end of text stay.  Two handles opened for writing on one file each
\* write from their own offset 0.
Overwrite(current, text) == text \o SubSeq(current, Len(text) + 1, Len(current))

\* open(p, 'a'); write(text): the text goes on where the file ends.
AppendText(f, p, text) ==
  WriteFile(f, p, (IF exists(f, p) THEN f[p] ELSE "") \o text)

\* The characters a write of text has put into the file when it fails after
\* n of them.
Cut(text, n) == SubSeq(text, 1, n)

----------------------------------------------------------------------------
(* init_users_csv, init_flashcards_csv: create the file, header only, when
   absent.  The users file is held as its text. *)

init_users_csv(f) ==
  IF exists(f, USERS_CSV) THEN f ELSE WriteFile(f, USERS_CSV, CsvLine(UsersHeader))

init_flashcards_csv(f) ==
  IF exists(f, FLASHCARDS_CSV) THEN f
  ELSE WriteFile(f, FLASHCARDS_CSV, <<FlashcardsHeader>>)

----------------------------------------------------------------------------
(* migrate_flashcards_csv *)

\* 'm' in first_line, for the column names of the model: no column name holds
\* another marker inside it, and a marker holds no comma.
Contains(field, m) == field = m

\* Mutant: the check looks for a column the current header does not have.
AlreadyMigratedWrongMarker(content) ==
  /\ content # <<>>
  /\ \A m \in {"id", "collection", "name", "card_id"} :
        \E i \in 1..Len(content[1]) : Contains(content[1][i], m)

\* The header check on the first line of the file.
AlreadyMigrated(content) ==
  /\ content # <<>>
  /\ \A m \in {"id", "collection", "name", "image_question"} :
        \E i \in 1..Len(content[1]) : Contains(content[1][i], m)

\* The backup path: the plain name, or the name with the clock reading when
\* the plain name is taken.
BackupPlain == FLASHCARDS_CSV \o ".backup"

BackupStamped(t) == FLASHCARDS_CSV \o ".backup." \o Str(t)

BackupFile(f, t) == IF exists(f, BackupPlain) THEN BackupStamped(t) ELSE BackupPlain

\* Mutant: the rows are numbered from 0.
MigratedCardFromZero(i, row) ==
  [ id |-> Str(i - 1),
    user_email |-> row["user_email"],
    name |-> DictGet(row, "name", ""),
    question |-> row["question"],
    answer |-> row["answer"],
    image_question |-> DictGet(row, "image_question", ""),
    image_answer |-> DictGet(row, "image_answer", ""),
    collection |-> DictGet(row, "collection", ""),
    created_at |-> row["created_at"] ]

\* The card built from the i-th row of the old file.
MigratedCard(i, row) ==
  [ id |-> Str(i),
    user_email |-> row["user_email"],
    name |-> DictGet(row, "name", ""),
    question |-> row["question"],
    answer |-> row["answer"],
    image_question |-> DictGet(row, "image_question", ""),
    image_answer |-> DictGet(row, "image_answer", ""),
    collection |-> DictGet(row, "collection", ""),
    created_at |-> row["created_at"] ]

MigratedCards(rows) == [i \in 1..Len(rows) |-> MigratedCard(i, rows[i])]

\* row['user_email'] and the like raise KeyError on a row without the key.
MigrateRaises(rows) ==
  \E i \in 1..Len(rows) :
     ~({"user_email", "question", "answer", "created_at"} \subseteq DOMAIN rows[i])

\* The run at clock reading t: [fs, raised, migrated].  A KeyError while the
\* backup is read leaves the file renamed away and nothing written.
migrate_flashcards_csv(f, t) ==
  IF ~exists(f, FLASHCARDS_CSV) \/ AlreadyMigrated(f[FLASHCARDS_CSV])
  THEN [fs |-> f, raised |-> FALSE, result |-> FALSE]
  ELSE LET backup_file == BackupFile(f, t)
           f1 == Rename(f, FLASHCARDS_CSV, backup_file)
           rows == DictReader(f1[backup_file])
       IN  IF MigrateRaises(rows)
           THEN [fs |-> f1, raised |-> TRUE, result |-> FALSE]
           ELSE [fs |-> Rewrite(f1, MigratedCards(rows)),
                 raised |-> FALSE, result |-> TRUE]

----------------------------------------------------------------------------
(* get_next_flashcard_id *)

\* Mutant: the loop keeps the last id it read, not the largest.
ScanStepLast(max_id, row) ==
  IF "id" \notin DOMAIN row THEN max_id
  ELSE IF IntParses(row["id"]) THEN IntOf(row["id"]) ELSE max_id

\* One turn of the scanning loop: int(row.get('id', 0)), ValueError skipped.
ScanStep(max_id, row) ==
  IF "id" \notin DOMAIN row THEN max_id
  ELSE IF IntParses(row["id"])
       THEN (IF IntOf(row["id"]) > max_id THEN IntOf(row["id"]) ELSE max_id)
       ELSE max_id

RECURSIVE ScanMaxId(_, _)
ScanMaxId(rows, max_id) ==
  IF rows = <<>> THEN max_id
  ELSE ScanMaxId(Tail(rows), ScanStep(max_id, Head(rows)))

\* int(None) is a TypeError, which the loop does not catch.
NextIdRaises(f) ==
  /\ exists(f, FLASHCARDS_CSV)
  /\ \E i \in 1..Len(DictReader(f[FLASHCARDS_CSV])) :
        LET row == DictReader(f[FLASHCARDS_CSV])[i]
        IN  "id" \in DOMAIN row /\ row["id"] = None

\* Mutant: the largest id itself is returned.
NextIdIsMax(f) ==
  IF ~exists(f, FLASHCARDS_CSV) THEN 1
  ELSE ScanMaxId(DictReader(f[FLASHCARDS_CSV]), 0)

\* Mutant: the rows are counted.
NextIdByCount(f) ==
  IF ~exists(f, FLASHCARDS_CSV) THEN 1
  ELSE Len(DictReader(f[FLASHCARDS_CSV])) + 1

get_next_flashcard_id(f) ==
  IF ~exists(f, FLASHCARDS_CSV) THEN 1
  ELSE ScanMaxId(DictReader(f[FLASHCARDS_CSV]), 0) + 1

----------------------------------------------------------------------------
(* save_flashcard *)

\* a: [user_email, name, question, answer, collection, image_question,
\* image_answer] (the last three '' when left out); t: the clock reading.
save_flashcard(f, a0, t) ==
  LET f1 == init_flashcards_csv(f)
      a == [a0 EXCEPT !.collection = DefaultArg(a0.collection, ""),
                      !.image_question = DefaultArg(a0.image_question, ""),
                      !.image_answer = DefaultArg(a0.image_answer, "")]
  IN  IF NextIdRaises(f1)
      THEN [fs |-> f1, raised |-> TRUE, result |-> 0]
      ELSE LET card_id == get_next_flashcard_id(f1)
               rec == << Str(card_id), CsvField(a.user_email), CsvField(a.name),
                         CsvField(a.question), CsvField(a.answer),
                         CsvField(a.image_question), CsvField(a.image_answer),
                         CsvField(a.collection), Strftime(t) >>
           IN  [fs |-> AppendFile(f1, FLASHCARDS_CSV, rec),
                raised |-> FALSE, result |-> card_id]

----------------------------------------------------------------------------
(* The id-and-owner test of update, delete and get_by_id. *)

\* Mutant: the owner is not compared.
RowMatchesIdOnly(row, card_id, user_email) == row["id"] = Str(card_id)

\* Mutant: the owner is compared as spelled.
RowMatchesExactCase(row, card_id, user_email) ==
  /\ row["id"] = Str(card_id)
  /\ row["user_email"] = user_email

\* row['id'] == str(card_id) and row['user_email'].lower() == user_email.lower()
RowMatches(row, card_id, user_email) ==
  /\ row["id"] = Str(card_id)
  /\ Lower(row["user_email"]) = Lower(user_email)

\* The test raises: KeyError without the column, AttributeError on None.
RowMatchRaises(row, card_id) ==
  \/ "id" \notin DOMAIN row
  \/ /\ row["id"] = Str(card_id)
     /\ ("user_email" \notin DOMAIN row \/ row["user_email"] = None)

AnyMatchRaises(rows, card_id) ==
  \E i \in 1..Len(rows) : RowMatchRaises(rows[i], card_id)

\* The rewriting loop reads these columns of every card it writes: KeyError
\* on a card without one of them.
WriteRowRaises(card) ==
  ~({"id", "user_email", "question", "answer", "created_at"} \subseteq DOMAIN card)

WriteRaises(cards) == \E i \in 1..Len(cards) : WriteRowRaises(cards[i])

\* The cards the loop has written when it ends: all of them, or the ones
\* before the first it raises on.
WrittenCards(cards) ==
  IF WriteRaises(cards)
  THEN SubSeq(cards, 1, (CHOOSE i \in 1..Len(cards) :
                           /\ WriteRowRaises(cards[i])
                           /\ \A j \in 1..(i - 1) : ~WriteRowRaises(cards[j])) - 1)
  ELSE cards

\* open(FLASHCARDS_CSV, 'w'), the header, then the cards: the file is
\* rewritten up to the card the loop raises on, which ends the call.
RewriteLoop(f, cards, result) ==
  [fs |-> Rewrite(f, WrittenCards(cards)),
   raised |-> WriteRaises(cards),
   result |-> IF WriteRaises(cards) THEN FALSE ELSE result]

----------------------------------------------------------------------------
(* update_flashcard *)

\* The fields update assigns on the matching row; an image given as None is kept.
UpdatedRow(row, a) ==
  LET r1 == DictSet(row, "name", a.name)
      r2 == DictSet(r1, "question", a.question)
      r3 == DictSet(r2, "answer", a.answer)
      r4 == DictSet(r3, "collection", a.collection)
      r5 == IF a.image_question # None
            THEN DictSet(r4, "image_question", a.image_question) ELSE r4
      r6 == IF a.image_answer # None
            THEN DictSet(r5, "image_answer", a.image_answer) ELSE r5
  IN  r6

RECURSIVE UpdateScan(_, _)
UpdateScan(rows, a) ==
  IF rows = <<>> THEN <<>>
  ELSE <<IF RowMatches(Head(rows), a.card_id, a.user_email)
         THEN UpdatedRow(Head(rows), a) ELSE Head(rows)>>
       \o UpdateScan(Tail(rows), a)

\* What update returns once the table is rewritten.
UpdateReturn(rows, a) == TRUE

\* a: [card_id, user_email, name, question, answer, collection,
\* image_question, image_answer].
\* The parameters as the signature binds them: collection='',
\* image_question='', image_answer='' when the caller leaves them out.
UpdateParams(a) ==
  [a EXCEPT !.collection = DefaultArg(a.collection, ""),
            !.image_question = DefaultArg(a.image_question, ""),
            !.image_answer = DefaultArg(a.image_answer, "")]

update_flashcard(f, a) ==
  IF ~exists(f, FLASHCARDS_CSV) THEN [fs |-> f, raised |-> FALSE, result |-> FALSE]
  ELSE LET rows == DictReader(f[FLASHCARDS_CSV])
       IN  IF AnyMatchRaises(rows, a.card_id)
           THEN [fs |-> f, raised |-> TRUE, result |-> FALSE]
           ELSE RewriteLoop(f, UpdateScan(rows, UpdateParams(a)), UpdateReturn(rows, a))

----------------------------------------------------------------------------
(* delete_flashcard *)

RECURSIVE DeleteScan(_, _, _)
DeleteScan(rows, card_id, user_email) ==
  IF rows = <<>> THEN <<>>
  ELSE (IF ~RowMatches(Head(rows), card_id, user_email) THEN <<Head(rows)>> ELSE <<>>)
       \o DeleteScan(Tail(rows), card_id, user_email)

\* What delete returns once the table is rewritten.
DeleteReturn(rows, card_id, user_email) == TRUE

delete_flashcard(f, card_id, user_email) ==
  IF ~exists(f, FLASHCARDS_CSV) THEN [fs |-> f, raised |-> FALSE, result |-> FALSE]
  ELSE LET rows == DictReader(f[FLASHCARDS_CSV])
       IN  IF AnyMatchRaises(rows, card_id)
           THEN [fs |-> f, raised |-> TRUE, result |-> FALSE]
           ELSE RewriteLoop(f, DeleteScan(rows, card_id, user_email),
                            DeleteReturn(rows, card_id, user_email))

----------------------------------------------------------------------------
(* get_flashcard_by_id *)

\* The dictionary returned for the matching row.
FoundCard(row) ==
  [ id |-> row["id"],
    name |-> DictGet(row, "name", ""),
    question |-> row["question"],
    answer |-> row["answer"],
    image_question |-> DictGet(row, "image_question", ""),
    image_answer |-> DictGet(row, "image_answer", ""),
    collection |-> DictGet(row, "collection", ""),
    created_at |-> row["created_at"] ]

\* The loop returns at the first matching row: <<card>>, or <<>> for None.
RECURSIVE GetScan(_, _, _)
GetScan(rows, card_id, user_email) ==
  IF rows = <<>> THEN <<>>
  ELSE IF RowMatches(Head(rows), card_id, user_email) THEN <<FoundCard(Head(rows))>>
       ELSE GetScan(Tail(rows), card_id, user_email)

\* The loop reads the rows up to the first that passes the test, and raises
\* on the first of them the test raises on; the dictionary built for the row
\* that passes reads three more columns.
GetRaises(rows, card_id, user_email) ==
  \E i \in 1..Len(rows) :
     /\ \A j \in 1..(i - 1) :
           ~RowMatchRaises(rows[j], card_id) /\ ~RowMatches(rows[j], card_id, user_email)
     /\ \/ RowMatchRaises(rows[i], card_id)
        \/ /\ RowMatches(rows[i], card_id, user_email)
           /\ ~({"question", "answer", "created_at"} \subseteq DOMAIN rows[i])

get_flashcard_by_id(f, card_id, user_email) ==
  IF ~exists(f, FLASHCARDS_CSV) THEN [raised |-> FALSE, result |-> <<>>]
  ELSE LET rows == DictReader(f[FLASHCARDS_CSV])
       IN  IF GetRaises(rows, card_id, user_email) THEN [raised |-> TRUE, result |-> <<>>]
           ELSE [raised |-> FALSE, result |-> GetScan(rows, card_id, user_email)]

----------------------------------------------------------------------------
(* delete_collection *)

\* Mutant: the collection name is compared ignoring case.
InCollectionAnyCase(row, collection_name, user_email) ==
  /\ Lower(row["collection"]) = Lower(collection_name)
  /\ Lower(row["user_email"]) = Lower(user_email)

\* row['collection'] == collection_name and row['user_email'].lower() == user_email.lower()
InCollection(row, collection_name, user_email) ==
  /\ row["collection"] = collection_name
  /\ Lower(row["user_email"]) = Lower(user_email)

InCollectionRaises(row, collection_name) ==
  \/ "collection" \notin DOMAIN row
  \/ /\ row["collection"] = collection_name
     /\ ("user_email" \notin DOMAIN row \/ row["user_email"] = None)

RECURSIVE CollectionScan(_, _, _)
CollectionScan(rows, collection_name, user_email) ==
  IF rows = <<>> THEN <<>>
  ELSE (IF ~InCollection(Head(rows), collection_name, user_email)
        THEN <<Head(rows)>> ELSE <<>>)
       \o CollectionScan(Tail(rows), collection_name, user_email)

delete_collection(f, collection_name, user_email) ==
  IF ~exists(f, FLASHCARDS_CSV) THEN [fs |-> f, raised |-> FALSE, result |-> FALSE]
  ELSE LET rows == DictReader(f[FLASHCARDS_CSV])
       IN  IF \E i \in 1..Len(rows) : InCollectionRaises(rows[i], collection_name)
           THEN [fs |-> f, raised |-> TRUE, result |-> FALSE]
           ELSE RewriteLoop(f, CollectionScan(rows, collection_name, user_email), TRUE)

----------------------------------------------------------------------------
(* email_exists, save_user_to_csv, register.  The users file is held as
   its text. *)

\* What init_users_csv writes.
UsersHeaderText == CsvLine(UsersHeader)

RECURSIVE EmailScan(_, _)
EmailScan(rows, email) ==
  IF rows = <<>> THEN FALSE
  ELSE IF Lower(Head(rows)["email"]) = Lower(email) THEN TRUE
       ELSE EmailScan(Tail(rows), email)

\* The test on one row raises: KeyError without the column, AttributeError
\* on None.
EmailRowRaises(row) == "email" \notin DOMAIN row \/ row["email"] = None

\* The loop returns at the first row with the email, and raises on a row
\* before it that the test raises on.
EmailScanRaises(rows, email) ==
  \E i \in 1..Len(rows) :
     /\ EmailRowRaises(rows[i])
     /\ \A j \in 1..(i - 1) :
           ~EmailRowRaises(rows[j]) /\ Lower(rows[j]["email"]) # Lower(email)

email_exists(f, email) ==
  IF ~exists(f, USERS_CSV) THEN [raised |-> FALSE, result |-> FALSE]
  ELSE LET rows == DictReader(CsvParse(f[USERS_CSV]))
       IN  IF EmailScanRaises(rows, email) THEN [raised |-> TRUE, result |-> FALSE]
           ELSE [raised |-> FALSE, result |-> EmailScan(rows, email)]

\* What save_user_to_csv writes at clock reading t.
UserText(name, email, password, t) ==
  CsvLine(<<CsvField(name), CsvField(email), CsvField(password), Strftime(t)>>)

save_user_to_csv(f, name, email, password, t) ==
  AppendText(f, USERS_CSV, UserText(name, email, password, t))

\* The shortest password register accepts.
MinPasswordLen == 6

\* How the system calls of a registration can go: [at, written].
\*   at "none":   every call succeeds;
\*   at "exists": open(USERS_CSV, 'r') in email_exists fails, outside the try
\*                block;
\*   at "init":   open(USERS_CSV, 'w') in init_users_csv fails: no file is
\*                made;
\*   at "header": open has made the file, and the write of the header, which
\*                goes to the file when the with block of init_users_csv
\*                closes it, fails after written characters (all of them:
\*                the close fails after the write);
\*   at "save":   init_users_csv has returned, and the write of the row in
\*                save_user_to_csv fails after written characters (none: the
\*                open or the write fails; all of them: the close fails
\*                after the write).
RegisterFailures(a, t) ==
  {[at |-> k, written |-> 0] : k \in {"none", "exists", "init"}}
  \cup {[at |-> "header", written |-> n] : n \in 0..Len(UsersHeaderText)}
  \cup {[at |-> "save", written |-> n] :
          n \in 0..Len(UserText(a.name, a.email, a.password, t))}

NoFailure == [at |-> "none", written |-> 0]

RegistrationError == "An error occurred during registration. Please try again."

\* The route handler: the message it flashes, in the order it checks.
\* a: [name, email, password, confirm_password]; a missing form field is
\* None.  io: how the system calls go, of RegisterFailures; failed says that
\* the handler reached the call io names.  An exception of email_exists is
\* outside the try block and leaves the handler; one of init_users_csv or
\* save_user_to_csv is caught and flashed.
register(f, a, t, io) ==
  IF (a.name = "" \/ a.name = None) \/ (a.email = "" \/ a.email = None)
     \/ (a.password = "" \/ a.password = None)
     \/ (a.confirm_password = "" \/ a.confirm_password = None)
  THEN [fs |-> f, raised |-> FALSE, failed |-> FALSE,
        result |-> "All fields are required!"]
  ELSE IF a.password # a.confirm_password
  THEN [fs |-> f, raised |-> FALSE, failed |-> FALSE,
        result |-> "Passwords do not match!"]
  ELSE IF StrLen(a.password) < MinPasswordLen
  THEN [fs |-> f, raised |-> FALSE, failed |-> FALSE,
        result |-> "Password must be at least 6 characters long!"]
  ELSE IF io.at = "exists" /\ exists(f, USERS_CSV)
  THEN [fs |-> f, raised |-> TRUE, failed |-> TRUE, result |-> "Internal Server Error"]
  ELSE LET seen == email_exists(f, a.email)
       IN  IF seen.raised
           THEN [fs |-> f, raised |-> TRUE, failed |-> FALSE,
                 result |-> "Internal Server Error"]
           ELSE IF seen.result
           THEN [fs |-> f, raised |-> FALSE, failed |-> FALSE,
                 result |-> "Email already registered! Please use a different email or try logging in."]
           ELSE IF io.at = "init" /\ ~exists(f, USERS_CSV)
           THEN [fs |-> f, raised |-> FALSE, failed |-> TRUE,
                 result |-> RegistrationError]
           ELSE IF io.at = "header" /\ ~exists(f, USERS_CSV)
           THEN [fs |-> WriteFile(f, USERS_CSV, Cut(UsersHeaderText, io.written)),
                 raised |-> FALSE, failed |-> TRUE, result |-> RegistrationError]
           ELSE IF io.at = "save"
           THEN [fs |-> AppendText(init_users_csv(f), USERS_CSV,
                                   Cut(UserText(a.name, a.email, a.password, t),
                                       io.written)),
                 raised |-> FALSE, failed |-> TRUE, result |-> RegistrationError]
           ELSE [fs |-> save_user_to_csv(init_users_csv(f),
                                         a.name, a.email, a.password, t),
                 raised |-> FALSE, failed |-> FALSE,
                 result |-> "Account created successfully! You can now log in."]

----------------------------------------------------------------------------
(* The operations as steps.  Each step is one whole call, run to completion;
   old and ret record the call for the properties below. *)

\* No call is in progress.
NoCalls == [th \in {} |-> <<>>]

\* hist takes in the operation before this one: the ids create has returned,
\* and whether a migration run has completed; the files migration runs have
\* renamed away and the number of system calls that have failed stay as
\* they are.
Remembered ==
  [ issued |-> hist.issued \cup
               (IF ret.op = "create" /\ ~ret.raised THEN {ret.result} ELSE {}),
    migrated |-> hist.migrated \/ (ret.op = "migrate" /\ ~ret.raised),
    originals |-> hist.originals,
    failures |-> hist.failures ]

Remember == hist' = Remembered

\* One more system call has failed; no behaviour has more than MaxFailures.
CanFail == hist.failures < MaxFailures

Failed(h) == [h EXCEPT !.failures = @ + 1]

Call(op, a, r) ==
  /\ fs' = r.fs
  /\ old' = fs
  /\ ret' = [op |-> op, a |-> a, raised |-> r.raised, result |-> r.result]
  /\ Remember
  /\ UNCHANGED <<now, calls>>

\* The number of rows of the flashcards table.
RowCount(f) ==
  IF exists(f, FLASHCARDS_CSV) /\ f[FLASHCARDS_CSV] # <<>>
  THEN Len(f[FLASHCARDS_CSV]) - 1 ELSE 0

Migrate == Call("migrate", [t |-> now], migrate_flashcards_csv(fs, now))

Create(Owners, Questions, Colls, ImgQ, ImgA, rowCap, idCap) ==
  /\ RowCount(fs) < rowCap
  /\ get_next_flashcard_id(init_flashcards_csv(fs)) <= idCap
  /\ \E e \in Owners, q \in Questions, c \in Colls, iq \in ImgQ, ia \in ImgA :
        LET a == [user_email |-> e, name |-> "", question |-> q, answer |-> "4",
                  collection |-> c, image_question |-> iq, image_answer |-> ia]
        IN  Call("create", a, save_flashcard(fs, a, now))

Update(Ids, Callers, Questions, Colls, ImgQ, ImgA) ==
  \E i \in Ids, e \in Callers, q \in Questions, c \in Colls, iq \in ImgQ, ia \in ImgA :
     LET a == [card_id |-> i, user_email |-> e, name |-> "sum", question |-> q,
               answer |-> "4", collection |-> c,
               image_question |-> iq, image_answer |-> ia]
     IN  Call("update", a, update_flashcard(fs, a))

Delete(Ids, Callers) ==
  \E i \in Ids, e \in Callers :
     Call("delete", [card_id |-> i, user_email |-> e], delete_flashcard(fs, i, e))

DeleteCollection(Colls, Callers) ==
  \E c \in Colls, e \in Callers :
     Call("delete_collection", [collection_name |-> c, user_email |-> e],
          delete_collection(fs, c, e))

GetById(Ids, Callers) ==
  \E i \in Ids, e \in Callers :
     LET r == get_flashcard_by_id(fs, i, e)
     IN  Call("get_by_id", [card_id |-> i, user_email |-> e],
              [fs |-> fs, raised |-> r.raised, result |-> r.result])

\* The number of rows of the users table, as csv.DictReader reads it.
UserCount(f) ==
  IF exists(f, USERS_CSV) /\ CsvParse(f[USERS_CSV]) # <<>>
  THEN Len(CsvParse(f[USERS_CSV])) - 1 ELSE 0

\* A registration.  The system calls go one of the ways of RegisterFailures;
\* a failure is one the handler reaches, and counts.
Register(Forms, userCap) ==
  \E a \in Forms :
     \E io \in RegisterFailures(a, now) :
        LET r == register(fs, a, now, io)
        IN  /\ io # NoFailure => (CanFail /\ r.failed)
            /\ UserCount(r.fs) <= userCap
            /\ fs' = r.fs
            /\ old' = fs
            /\ ret' = [op |-> "register",
                       a |-> [name |-> a.name, email |-> a.email,
                              password |-> a.password,
                              confirm_password |-> a.confirm_password, io |-> io],
                       raised |-> r.raised, result |-> r.result]
            /\ hist' = IF io = NoFailure THEN Remembered ELSE Failed(Remembered)
            /\ UNCHANGED <<now, calls>>

NextId ==
  Call("next_id", [t |-> now],
       [fs |-> fs, raised |-> NextIdRaises(fs), result |-> get_next_flashcard_id(fs)])

Tick ==
  /\ now < MaxTime
  /\ now' = now + 1
  /\ old' = fs
  /\ ret' = [op |-> "tick", a |-> [t |-> now], raised |-> FALSE, result |-> FALSE]
  /\ Remember
  /\ UNCHANGED <<fs, calls>>

----------------------------------------------------------------------------
(* get_user_flashcards, get_user_collections *)

\* The test on one row raises: KeyError without the column, AttributeError
\* on None; the dictionary built for a matching row reads four more columns.
ListRowRaises(row, user_email) ==
  \/ "user_email" \notin DOMAIN row
  \/ row["user_email"] = None
  \/ /\ Lower(row["user_email"]) = Lower(user_email)
     /\ ~({"id", "question", "answer", "created_at"} \subseteq DOMAIN row)

RECURSIVE ListScan(_, _)
ListScan(rows, user_email) ==
  IF rows = <<>> THEN <<>>
  ELSE (IF Lower(Head(rows)["user_email"]) = Lower(user_email)
        THEN <<FoundCard(Head(rows))>> ELSE <<>>)
       \o ListScan(Tail(rows), user_email)

get_user_flashcards(f, user_email) ==
  IF ~exists(f, FLASHCARDS_CSV) THEN [raised |-> FALSE, result |-> <<>>]
  ELSE LET rows == DictReader(f[FLASHCARDS_CSV])
       IN  IF \E i \in 1..Len(rows) : ListRowRaises(rows[i], user_email)
           THEN [raised |-> TRUE, result |-> <<>>]
           ELSE [raised |-> FALSE, result |-> ListScan(rows, user_email)]

\* The place of a collection name in sorted order (code point order).
NameRank(s) ==
  CASE s = "Art" -> 1
    [] s = "Math" -> 2
    [] s = "math" -> 3
    [] OTHER -> 4

\* sorted(list(S)), for names of different rank.
RECURSIVE Sorted(_)
Sorted(S) ==
  IF S = {} THEN <<>>
  ELSE LET first == CHOOSE x \in S : \A y \in S : NameRank(x) <= NameRank(y)
       IN  <<first>> \o Sorted(S \ {first})

\* if card['collection']: the empty name and None are left out.
get_user_collections(f, user_email) ==
  LET got == get_user_flashcards(f, user_email)
      names == {got.result[i].collection : i \in 1..Len(got.result)} \ {"", None}
  IN  [raised |-> got.raised, result |-> Sorted(names)]

----------------------------------------------------------------------------
(* The route handlers.  session is the user the request's session cookie
   names, or NoUser; a handler is one step, with every service call it makes. *)

NoUser == "<no user>"

\* s.strip(), on the strings of the model.
Strip(s) ==
  CASE s = " Math " -> "Math"
    [] s = " " -> ""
    [] OTHER -> s

\* request.form.get(k, default): a field the form lacks is None.
FormGet(v, default) == IF v = None THEN default ELSE v

\* not v, for a form field: missing or empty.
Falsy(v) == v = None \/ v = ""

\* A handler that stops before it calls the service.
Refuses(f, message) == [fs |-> f, raised |-> FALSE, result |-> message]

practice(f, session, t) ==
  IF session = NoUser THEN Refuses(f, "Please log in to access the practice page.")
  ELSE LET m == migrate_flashcards_csv(f, t)
           user_flashcards == get_user_flashcards(m.fs, session)
           user_collections == get_user_collections(m.fs, session)
       IN  IF m.raised \/ user_flashcards.raised
           THEN [fs |-> m.fs, raised |-> TRUE, result |-> "Internal Server Error"]
           ELSE [fs |-> m.fs, raised |-> FALSE,
                 result |-> [flashcards |-> user_flashcards.result,
                             collections |-> user_collections.result]]

\* form: [name, question, answer, collection, image_question, image_answer]
add_flashcard(f, session, form, t) ==
  IF session = NoUser THEN Refuses(f, "Please log in to add flashcards.")
  ELSE IF Falsy(form.question) \/ Falsy(form.answer)
  THEN Refuses(f, "Both question and answer are required!")
  ELSE LET r == save_flashcard(f, [user_email |-> session, name |-> Strip(FormGet(form.name, "")),
                                   question |-> form.question, answer |-> form.answer,
                                   collection |-> Strip(FormGet(form.collection, "")),
                                   image_question |-> Strip(FormGet(form.image_question, "")),
                                   image_answer |-> Strip(FormGet(form.image_answer, ""))], t)
       IN  [fs |-> r.fs, raised |-> FALSE,
            result |-> IF r.raised THEN "An error occurred while saving the flashcard."
                       ELSE "Flashcard added successfully!"]

\* method: "GET" shows the form, "POST" saves the changes.
edit_flashcard(f, session, method, card_id, form) ==
  IF session = NoUser THEN Refuses(f, "Please log in to edit flashcards.")
  ELSE IF method = "POST"
  THEN IF Falsy(form.question) \/ Falsy(form.answer)
       THEN Refuses(f, "Both question and answer are required!")
       ELSE LET r == update_flashcard(f,
                       [card_id |-> card_id, user_email |-> session,
                        name |-> Strip(FormGet(form.name, "")), question |-> form.question,
                        answer |-> form.answer, collection |-> Strip(FormGet(form.collection, "")),
                        image_question |-> Strip(FormGet(form.image_question, "")),
                        image_answer |-> Strip(FormGet(form.image_answer, ""))])
            IN  [fs |-> r.fs, raised |-> FALSE,
                 result |->
                   IF r.raised THEN "An error occurred while updating the flashcard."
                   ELSE IF r.result THEN "Flashcard updated successfully!"
                   ELSE "Flashcard not found or you do not have permission to edit it."]
  ELSE LET flashcard == get_flashcard_by_id(f, card_id, session)
           user_collections == get_user_collections(f, session)
       IN  IF flashcard.raised
           THEN [fs |-> f, raised |-> TRUE, result |-> "Internal Server Error"]
           ELSE IF flashcard.result = <<>>
           THEN Refuses(f, "Flashcard not found or you do not have permission to edit it.")
           ELSE IF user_collections.raised
           THEN [fs |-> f, raised |-> TRUE, result |-> "Internal Server Error"]
           ELSE [fs |-> f, raised |-> FALSE,
                 result |-> [flashcard |-> flashcard.result[1],
                             collections |-> user_collections.result]]

delete_flashcard_route(f, session, card_id) ==
  IF session = NoUser THEN Refuses(f, "Please log in to delete flashcards.")
  ELSE LET r == delete_flashcard(f, card_id, session)
       IN  [fs |-> r.fs, raised |-> FALSE,
            result |->
              IF r.raised THEN "An error occurred while deleting the flashcard."
              ELSE IF r.result THEN "Flashcard deleted successfully!"
              ELSE "Flashcard not found or you do not have permission to delete it."]

delete_collection_route(f, session, collection_name) ==
  IF session = NoUser THEN Refuses(f, "Please log in to delete collections.")
  ELSE LET r == delete_collection(f, collection_name, session)
       IN  [fs |-> r.fs, raised |-> FALSE,
            result |->
              IF r.raised THEN "An error occurred while deleting the collection."
              ELSE IF r.result
              THEN "Collection \"" \o collection_name \o "\" deleted successfully!"
              ELSE "Collection not found or you do not have permission to delete it."]

\* The requests as steps.
Form(q, c) ==
  [name |-> "", question |-> q, answer |-> "4", collection |-> c,
   image_question |-> "", image_answer |-> ""]

PracticeRequest(Sessions) ==
  \E u \in Sessions :
     Call("practice", [session |-> u, t |-> now], practice(fs, u, now))

AddFlashcardRequest(Sessions, Questions, Colls, rowCap, idCap) ==
  /\ RowCount(fs) < rowCap
  /\ get_next_flashcard_id(init_flashcards_csv(fs)) <= idCap
  /\ \E u \in Sessions, q \in Questions, c \in Colls :
        Call("add_flashcard", [session |-> u, form |-> Form(q, c), t |-> now],
             add_flashcard(fs, u, Form(q, c), now))

EditFlashcardRequest(Sessions, Methods, Ids, Questions, Colls) ==
  \E u \in Sessions, m \in Methods, i \in Ids, q \in Questions, c \in Colls :
     Call("edit_flashcard",
          [session |-> u, method |-> m, card_id |-> i, form |-> Form(q, c)],
          edit_flashcard(fs, u, m, i, Form(q, c)))

DeleteFlashcardRequest(Sessions, Ids) ==
  \E u \in Sessions, i \in Ids :
     Call("delete_flashcard_route", [session |-> u, card_id |-> i],
          delete_flashcard_route(fs, u, i))

DeleteCollectionRequest(Sessions, Colls) ==
  \E u \in Sessions, c \in Colls :
     Call("delete_collection_route", [session |-> u, collection_name |-> c],
          delete_collection_route(fs, u, c))

----------------------------------------------------------------------------
(* migrate_flashcards_csv, statement by statement, on files held as their
   text.  Each system call of the run is a step that succeeds or raises
   OSError; an exception ends the run where it is, since nothing in the
   function catches it; a write that fails leaves in the file the characters
   that reached it. *)

\* file.readline().strip(): the text before the first line end.
FirstLine(text) ==
  LET ends == {i \in 1..Len(text) : SubSeq(text, i, i) \in {"\r", "\n"}}
  IN  IF ends = {} THEN text
      ELSE SubSeq(text, 1, (CHOOSE i \in ends : \A j \in ends : i <= j) - 1)

\* m in line
InText(m, line) ==
  \E i \in 1..(Len(line) - Len(m) + 1) : SubSeq(line, i, i + Len(m) - 1) = m

\* The header check on the first line of the file.
AlreadyMigratedText(text) ==
  \A m \in {"id", "collection", "name", "image_question"} : InText(m, FirstLine(text))

\* The text the writing loop is to write: the header, then the cards.
MigrationOutput(rows) ==
  CsvText(<<FlashcardsHeader>> \o CardRecords(MigratedCards(rows)))

\* The run of thread th ends: calls drops it, ret says how it ended.  The
\* function returns None; result says whether the run wrote the new file.
MigrateEnds(th, at, raised, result) ==
  /\ ret' = [op |-> "migrate", a |-> [t |-> now, at |-> at],
             raised |-> raised, result |-> result]
  /\ calls' = [q \in DOMAIN calls \ {th} |-> calls[q]]

\* The existence test, the header check, which opens the file to read its
\* first line, and os.rename to the backup name.  The open and the rename
\* can each fail, and leave the files as they are.
MigrateStart(th) ==
  /\ th \notin DOMAIN calls
  /\ old' = fs
  /\ UNCHANGED now
  /\ IF ~exists(fs, FLASHCARDS_CSV)
     THEN /\ MigrateEnds(th, "check", FALSE, FALSE)
          /\ Remember
          /\ UNCHANGED fs
     ELSE \E opened \in BOOLEAN :
            IF ~opened
            THEN /\ CanFail
                 /\ MigrateEnds(th, "check", TRUE, FALSE)
                 /\ hist' = Failed(Remembered)
                 /\ UNCHANGED fs
            ELSE IF AlreadyMigratedText(fs[FLASHCARDS_CSV])
            THEN /\ MigrateEnds(th, "check", FALSE, FALSE)
                 /\ Remember
                 /\ UNCHANGED fs
            ELSE \E ok \in BOOLEAN :
                   IF ok
                   THEN /\ fs' = Rename(fs, FLASHCARDS_CSV, BackupFile(fs, now))
                        /\ calls' = [q \in DOMAIN calls \cup {th} |->
                                       IF q = th
                                       THEN [pc |-> "renamed",
                                             backup_file |-> BackupFile(fs, now),
                                             output |-> ""]
                                       ELSE calls[q]]
                        /\ ret' = [op |-> "migrate_running",
                                   a |-> [t |-> now, at |-> "rename"],
                                   raised |-> FALSE, result |-> FALSE]
                        /\ hist' = [Remembered EXCEPT
                                      !.originals = @ \cup {fs[FLASHCARDS_CSV]}]
                   ELSE /\ CanFail
                        /\ MigrateEnds(th, "rename", TRUE, FALSE)
                        /\ hist' = Failed(Remembered)
                        /\ UNCHANGED fs

\* The loop over the backup file that builds migrated_cards: the open can
\* fail, and a row without a column raises KeyError.
MigrateRead(th) ==
  /\ th \in DOMAIN calls
  /\ calls[th].pc = "renamed"
  /\ UNCHANGED <<fs, now, old>>
  /\ \E opened \in BOOLEAN :
       LET rows == DictReader(CsvParse(fs[calls[th].backup_file]))
       IN  IF ~opened
           THEN /\ CanFail
                /\ MigrateEnds(th, "read", TRUE, FALSE)
                /\ hist' = Failed(hist)
           ELSE IF MigrateRaises(rows)
           THEN /\ MigrateEnds(th, "read", TRUE, FALSE)
                /\ UNCHANGED hist
           ELSE /\ calls' = [calls EXCEPT ![th] =
                               [@ EXCEPT !.pc = "read", !.output = MigrationOutput(rows)]]
                /\ UNCHANGED <<ret, hist>>

\* open(FLASHCARDS_CSV, 'w'): the file is there and empty.
MigrateOpen(th) ==
  /\ th \in DOMAIN calls
  /\ calls[th].pc = "read"
  /\ UNCHANGED <<now, old>>
  /\ \E ok \in BOOLEAN :
       IF ok
       THEN /\ fs' = WriteFile(fs, FLASHCARDS_CSV, "")
            /\ calls' = [calls EXCEPT ![th] = [@ EXCEPT !.pc = "writing"]]
            /\ UNCHANGED <<ret, hist>>
       ELSE /\ CanFail
            /\ MigrateEnds(th, "open", TRUE, FALSE)
            /\ hist' = Failed(hist)
            /\ UNCHANGED fs

\* How the with block of the writing loop can end: written says how many
\* characters of the text have reached the file, failed whether the close
\* has raised.  The close raises after any number of them, all of them too.
MigrateWriteEnds(output) ==
  {[written |-> Len(output), failed |-> FALSE]}
  \cup {[written |-> n, failed |-> TRUE] : n \in 0..Len(output)}

\* The writerow calls, for the header and for each card, and the close of
\* the with block.  The text, shorter than the buffer of the handle, stays
\* in the buffer while the loop runs and goes to the file when the handle is
\* closed.
MigrateWrite(th) ==
  /\ th \in DOMAIN calls
  /\ calls[th].pc = "writing"
  /\ UNCHANGED <<now, old>>
  /\ \E end \in MigrateWriteEnds(calls[th].output) :
       /\ end.failed => CanFail
       /\ fs' = WriteFile(fs, FLASHCARDS_CSV, Cut(calls[th].output, end.written))
       /\ ret' = [op |-> "migrate",
                  a |-> [t |-> now, at |-> IF end.failed THEN "close" ELSE "return",
                         written |-> end.written],
                  raised |-> end.failed, result |-> ~end.failed]
       /\ calls' = [q \in DOMAIN calls \ {th} |-> calls[q]]
       /\ hist' = IF end.failed THEN Failed(hist) ELSE hist

----------------------------------------------------------------------------
(* update_flashcard, statement by statement, on the file held as its
   text, for requests served by different threads: the read calls of the
   loop that reads the table, open(..., 'w'), and the close at the end of
   the with block, when the text written to the handle, shorter than its
   buffer, reaches the file in one piece. *)

\* The locals of a call, and what the properties need of its history: text
\* is what the read calls have returned, headless says the first of them
\* returned nothing; alone says no other call had begun to rewrite the file
\* when this one had read it, shared that another call held the file open
\* for writing when this one opened it, last that every other call had
\* returned when this one did.
UpdateLocals(pc, a, text, headless, found, flashcards, alone) ==
  [pc |-> pc, a |-> a, text |-> text, headless |-> headless, found |-> found,
   flashcards |-> flashcards, alone |-> alone, shared |-> FALSE, last |-> FALSE,
   raised |-> FALSE, result |-> FALSE]

Bind(th, locals) ==
  calls' = [q \in DOMAIN calls \cup {th} |-> IF q = th THEN locals ELSE calls[q]]

\* The rows csv.DictReader has yielded from the text read so far.  It looks
\* for the field names when the loop asks for the first row; when the read
\* call then returns nothing it has none, goes on to read the first row, and
\* looks again once it has a row: the first line that comes is a row, and
\* the line after it names the fields.
ReadRows(text, headless) ==
  LET lines == CsvParse(text)
  IN  IF ~headless THEN DictReader(lines)
      ELSE IF Len(lines) < 2 THEN <<>>
      ELSE [i \in 1..(Len(lines) - 1) |->
              DictRow(lines[2], IF i = 1 THEN lines[1] ELSE lines[i + 1])]

\* dict(zip(self.fieldnames, row)) raises TypeError: the reader has a row,
\* and the read call for the line that is to name the fields returns nothing.
ReadRaises(text, headless) == headless /\ Len(CsvParse(text)) = 1

\* A read call of the loop over the rows has returned more, after the
\* earlier ones returned text: the locals of the call after it.  The test of
\* line 293 runs on the rows as they come, and an exception ends the call;
\* a read call that returns nothing ends the loop, unless it is the one that
\* looked for the field names.
AfterReadCall(th, a, text, more, first, headless) ==
  LET rows == ReadRows(text \o more, headless)
      alone == \A o \in DOMAIN calls \ {th} : calls[o].pc \in {"reading", "read"}
  IN  IF AnyMatchRaises(rows, a.card_id)
      THEN [UpdateLocals("returned", a, text \o more, headless, rows, <<>>, alone)
              EXCEPT !.raised = TRUE]
      ELSE IF more # "" \/ first
      THEN UpdateLocals("reading", a, text \o more, headless, <<>>, <<>>, FALSE)
      ELSE IF ReadRaises(text, headless)
      THEN [UpdateLocals("returned", a, text, headless, rows, <<>>, alone)
              EXCEPT !.raised = TRUE]
      ELSE UpdateLocals("read", a, text, headless, rows,
                        UpdateScan(rows, UpdateParams(a)), alone)

\* The existence test, the open, and the first read call, which returns the
\* file as it is, shorter than the buffer of the handle.
UpdateRead(th, Ids, Users, Questions) ==
  /\ th \notin DOMAIN calls
  /\ \E i \in Ids, e \in Users, q \in Questions :
        LET a == [card_id |-> i, user_email |-> e, name |-> "sum", question |-> q,
                  answer |-> "4", collection |-> "Math",
                  image_question |-> Omitted, image_answer |-> Omitted]
        IN  /\ ret' = [op |-> "update_running", a |-> a, raised |-> FALSE, result |-> FALSE]
            /\ IF ~exists(fs, FLASHCARDS_CSV)
               THEN Bind(th, UpdateLocals("returned", a, "", FALSE, <<>>, <<>>,
                                          \A o \in DOMAIN calls :
                                             calls[o].pc \in {"reading", "read"}))
               ELSE Bind(th, AfterReadCall(th, a, "", fs[FLASHCARDS_CSV], TRUE,
                                           fs[FLASHCARDS_CSV] = ""))
  /\ old' = fs
  /\ Remember
  /\ UNCHANGED <<fs, now>>

\* The next read call on the handle: it returns what the file holds past the
\* characters read so far, which is nothing unless another call has written
\* to the file since.
UpdateReadMore(th) ==
  /\ th \in DOMAIN calls
  /\ calls[th].pc = "reading"
  /\ LET text == calls[th].text
         current == fs[FLASHCARDS_CSV]
         more == SubSeq(current, Len(text) + 1, Len(current))
     IN  calls' = [calls EXCEPT ![th] =
                     AfterReadCall(th, calls[th].a, text, more, FALSE,
                                   calls[th].headless)]
  /\ UNCHANGED <<fs, now, old, ret, hist>>

UpdateOpen(th) ==
  /\ th \in DOMAIN calls
  /\ calls[th].pc = "read"
  /\ fs' = WriteFile(fs, FLASHCARDS_CSV, "")
  /\ calls' = [calls EXCEPT ![th] =
                 [@ EXCEPT !.pc = "opened",
                           !.shared = \E o \in DOMAIN calls : calls[o].pc = "opened"]]
  /\ UNCHANGED <<now, old, ret, hist>>

UpdateClose(th) ==
  /\ th \in DOMAIN calls
  /\ calls[th].pc = "opened"
  /\ LET text == CsvText(<<FlashcardsHeader>>
                         \o CardRecords(WrittenCards(calls[th].flashcards)))
     IN  fs' = WriteFile(fs, FLASHCARDS_CSV, Overwrite(fs[FLASHCARDS_CSV], text))
  /\ calls' = [calls EXCEPT ![th] =
                 [@ EXCEPT !.pc = "returned",
                           !.raised = WriteRaises(calls[th].flashcards),
                           !.result = ~WriteRaises(calls[th].flashcards)
                                      /\ UpdateReturn(calls[th].found, calls[th].a),
                           !.last = \A o \in DOMAIN calls \ {th} : calls[o].pc = "returned"]]
  /\ ret' = [op |-> "update", a |-> calls[th].a,
             raised |-> WriteRaises(calls[th].flashcards),
             result |-> ~WriteRaises(calls[th].flashcards)
                        /\ UpdateReturn(calls[th].found, calls[th].a)]
  /\ UNCHANGED <<now, old, hist>>

----------------------------------------------------------------------------
(* The states the program starts in. *)

NoFiles == [p \in {} |-> <<>>]

Started(f) ==
  /\ fs = f
  /\ now = 0
  /\ old = f
  /\ ret = [op |-> "start", a |-> [t |-> 0], raised |-> FALSE, result |-> FALSE]
  /\ hist = [issued |-> {}, migrated |-> FALSE, originals |-> {}, failures |-> 0]
  /\ calls = NoCalls

\* People who own cards, and the spellings they log in under.
Owners == {"A@x.com", "b@x.com"}
Callers == {"a@X.com", "A@x.com", "b@x.com"}
Ids == 1..MaxId

(* Spec: the flashcard service from an absent or empty table. *)

Init ==
  \E f \in {NoFiles, WriteFile(NoFiles, FLASHCARDS_CSV, <<FlashcardsHeader>>)} : Started(f)

Next ==
  \/ Create(Owners, {"2+2?"}, {"Math"}, {Omitted}, {Omitted}, MaxId, MaxId)
  \/ Update(Ids, Callers, {"3+1?"}, {"Math"}, {Omitted}, {Omitted})
  \/ Delete(Ids, Callers)
  \/ DeleteCollection({"Math"}, Callers)
  \/ GetById(Ids, Callers)

Spec == Init /\ [][Next]_vars

(* SpecImg: cards with images, updated with the image arguments given as '',
   given as None, or left out. *)

NextImg ==
  \/ Create({"A@x.com"}, {"2+2?"}, {"Math"}, {"", "png-q"}, {"", "png-a"}, MaxId, MaxId)
  \/ Update(Ids, {"a@X.com"}, {"2+2?"}, {"Math"},
            {Omitted, None, ""}, {Omitted, None, ""})

SpecImg == Init /\ [][NextImg]_vars

(* SpecColl: collections whose names differ in case, owned by two people. *)

NextColl ==
  \/ Create(Owners, {"2+2?"}, {"Math", "math"}, {Omitted}, {Omitted}, MaxId, MaxId)
  \/ DeleteCollection({"Math", "math", "Art"}, {"a@X.com", "b@x.com"})

SpecColl == Init /\ [][NextColl]_vars

(* SpecNextId: next_id and create on a table found with any ids, some of them
   not integers. *)

IdPool == {"1", "2", "5", "05", "x", ""}

ScanRecord(id) ==
  <<id, "b@x.com", "", "2+2?", "4", "", "", "", Strftime(0)>>

RECURSIVE SeqsUpTo(_, _)
SeqsUpTo(S, n) ==
  IF n = 0 THEN {<<>>}
  ELSE LET shorter == SeqsUpTo(S, n - 1)
       IN  shorter \cup {Append(q, x) : q \in shorter, x \in S}

InitNextId ==
  \/ Started(NoFiles)
  \/ \E recs \in SeqsUpTo({ScanRecord(id) : id \in IdPool}, MaxScanRows) :
        Started(WriteFile(NoFiles, FLASHCARDS_CSV, <<FlashcardsHeader>> \o recs))

NextNextId ==
  \/ NextId
  \/ Create({"A@x.com"}, {"2+2?"}, {"Math"}, {Omitted}, {Omitted},
            MaxScanRows + MaxScanCreates, MaxParse)

SpecNextId == InitNextId /\ [][NextNextId]_vars

(* SpecMig: the program starts on a file in the legacy format, with or
   without a backup left by an earlier run; the service is used before and
   after the migration runs. *)

LegacyRecord(e) == <<e, "1+1?", "2", "2023-05-01 10:00:00">>

\* What an earlier backup holds: an older legacy file.
EarlierBackup == <<LegacyHeader, <<"b@x.com", "0+0?", "0", "2022-01-01 09:00:00">> >>

InitMig ==
  \E recs \in SeqsUpTo({LegacyRecord(e) : e \in Owners}, MaxLegacyRows),
     backups \in SUBSET {BackupPlain} :
        Started([p \in {FLASHCARDS_CSV} \cup backups |->
                   IF p = FLASHCARDS_CSV THEN <<LegacyHeader>> \o recs
                   ELSE EarlierBackup])

NextMig ==
  \/ Migrate
  \/ Tick
  \/ Create({"A@x.com"}, {"2+2?"}, {"Math"}, {Omitted}, {Omitted}, MaxRows, MaxId)
  \/ Update(1..MaxRows, {"a@X.com"}, {"3+1?"}, {"Math"}, {Omitted}, {Omitted})
  \/ Delete(1..MaxRows, {"a@X.com"})
  \/ DeleteCollection({"Math"}, {"a@X.com"})

SpecMig == InitMig /\ [][NextMig]_vars

(* SpecUsers: registration. *)

\* The forms posted: one of a new user under each spelling of an email, and
\* one for each check of the handler that turns a form down.
ValidForm(e) ==
  [name |-> "Ann", email |-> e, password |-> "secret", confirm_password |-> "secret"]

RegisterForms ==
  {ValidForm(e) : e \in {"A@x.com", "a@X.com", "b@x.com"}}
  \cup { [ValidForm("b@x.com") EXCEPT !.name = ""],
         [ValidForm("b@x.com") EXCEPT !.email = ""],
         [ValidForm("b@x.com") EXCEPT !.confirm_password = "abc"],
         [ValidForm("b@x.com") EXCEPT !.password = "abc", !.confirm_password = "abc"] }

NextUsers == Register(RegisterForms, MaxUsers)

SpecUsers == Init /\ [][NextUsers]_vars

(* SpecFail: migration runs, one after another, on a legacy file held as
   its text; any system call of a run may fail, MaxFailures of them in a
   behaviour. *)

InitFail ==
  \E recs \in SeqsUpTo({LegacyRecord(e) : e \in Owners}, MaxLegacyRows),
     backups \in SUBSET {BackupPlain} :
        Started([p \in {FLASHCARDS_CSV} \cup backups |->
                   IF p = FLASHCARDS_CSV THEN CsvText(<<LegacyHeader>> \o recs)
                   ELSE CsvText(EarlierBackup)])

NextFail ==
  \/ MigrateStart(1)
  \/ MigrateRead(1)
  \/ MigrateOpen(1)
  \/ MigrateWrite(1)
  \/ Tick

SpecFail == InitFail /\ [][NextFail]_vars

(* SpecFrame: update and delete on a table found with cards of two owners,
   some under the same id, some under an id that is no integer. *)

FrameRecord(id, e) == <<id, e, "", "2+2?", "4", "", "", "", Strftime(0)>>

InitFrame ==
  \E recs \in SeqsUpTo({FrameRecord(id, e) : id \in {"1", "2", "x"}, e \in Owners},
                       MaxFrameRows) :
     Started(WriteFile(NoFiles, FLASHCARDS_CSV, <<FlashcardsHeader>> \o recs))

NextFrame ==
  \/ Update(1..2, {"a@X.com", "b@x.com"}, {"3+1?"}, {"Math"}, {Omitted}, {Omitted})
  \/ Delete(1..2, {"a@X.com", "b@x.com"})

SpecFrame == InitFrame /\ [][NextFrame]_vars

(* SpecWeb: requests of a browser, logged in or not, to a server that
   starts on a file in the legacy format. *)

NextWeb ==
  \/ PracticeRequest({NoUser, "a@X.com"})
  \/ AddFlashcardRequest({NoUser, "a@X.com"}, {"", "2+2?"}, {" Math "}, MaxRows, MaxId)
  \/ EditFlashcardRequest({NoUser, "a@X.com"}, {"GET", "POST"}, 1..MaxRows,
                          {"", "3+1?"}, {"Math"})
  \/ DeleteFlashcardRequest({NoUser, "a@X.com"}, 1..MaxRows)
  \/ DeleteCollectionRequest({NoUser, "a@X.com"}, {"Math"})

SpecWeb == InitMig /\ [][NextWeb]_vars

(* SpecRace: two requests, each an update, served by two threads on a
   table of two cards, held as its text. *)

\* app.run(debug=True) starts the development server of Flask, which serves
\* each request in a thread of its own: two requests in progress at a time.
Threads == {1, 2}

InitRace ==
  Started(WriteFile(NoFiles, FLASHCARDS_CSV,
                    CsvText(<<FlashcardsHeader, FrameRecord("1", "A@x.com"),
                              FrameRecord("2", "b@x.com")>>)))

NextRace ==
  \/ \E th \in Threads :
        UpdateRead(th, 1..2, {"a@X.com", "b@x.com"}, {"3+1?", "1+1+1+1?"})
  \/ \E th \in Threads : UpdateReadMore(th)
  \/ \E th \in Threads : UpdateOpen(th)
  \/ \E th \in Threads : UpdateClose(th)

SpecRace == InitRace /\ [][NextRace]_vars

----------------------------------------------------------------------------
(* What the properties read: the records of the flashcards table as they lie
   in the file, under the current header. *)

Records(f) ==
  IF exists(f, FLASHCARDS_CSV) /\ f[FLASHCARDS_CSV] # <<>>
  THEN Tail(f[FLASHCARDS_CSV]) ELSE <<>>

CurrentSchema(f) ==
  exists(f, FLASHCARDS_CSV) /\ f[FLASHCARDS_CSV] # <<>>
  /\ f[FLASHCARDS_CSV][1] = FlashcardsHeader

\* Field positions of a record under the current header.
IdOf(rec) == rec[1]
OwnerOf(rec) == rec[2]
ImageQuestionOf(rec) == rec[6]
ImageAnswerOf(rec) == rec[7]
CollectionOf(rec) == rec[8]

SameOwner(e1, e2) == Lower(e1) = Lower(e2)

\* The record with this id belongs to this caller.
Owned(rec, card_id, user_email) ==
  IdOf(rec) = Str(card_id) /\ SameOwner(OwnerOf(rec), user_email)

Returned(op) == ret.op = op /\ ~ret.raised

----------------------------------------------------------------------------
(* C1: from an absent or empty table, after any sequence of create, update,
   delete and delete_collection, no two rows of the flashcards table carry
   the same id, whoever owns them. *)
C1_UniqueIds ==
  \A i, j \in 1..Len(Records(fs)) :
     i # j => IdOf(Records(fs)[i]) # IdOf(Records(fs)[j])

\* A create that reissued an id, into a table holding cards of two owners.
C1_Witness ==
  /\ Returned("create")
  /\ ret.result \in hist.issued
  /\ \E i, j \in 1..Len(Records(fs)) :
        ~SameOwner(OwnerOf(Records(fs)[i]), OwnerOf(Records(fs)[j]))

(* C3: get_by_id(i, e') returns the card created under id i by owner e when
   e' equals e ignoring case, and not-found for any other e', though a row
   with id i is in the table.  Stated for the card a create has just stored,
   and for every get_by_id call on the table. *)
C3_GetByIdOwner ==
  /\ Returned("create") =>
        \A e \in Callers \cup Owners :
           LET got == get_flashcard_by_id(fs, ret.result, e)
           IN  /\ ~got.raised
               /\ \E k \in 1..Len(Records(fs)) : IdOf(Records(fs)[k]) = Str(ret.result)
               /\ IF SameOwner(e, ret.a.user_email)
                  THEN /\ Len(got.result) = 1
                       /\ got.result[1].id = Str(ret.result)
                       /\ got.result[1].question = ret.a.question
                       /\ got.result[1].answer = ret.a.answer
                       /\ got.result[1].collection = ret.a.collection
                  ELSE got.result = <<>>
  /\ Returned("get_by_id") =>
        \A k \in 1..Len(Records(fs)) :
           IdOf(Records(fs)[k]) = Str(ret.a.card_id) =>
              IF SameOwner(OwnerOf(Records(fs)[k]), ret.a.user_email)
              THEN /\ Len(ret.result) = 1
                   /\ ret.result[1].id = IdOf(Records(fs)[k])
                   /\ ret.result[1].question = Records(fs)[k][4]
                   /\ ret.result[1].collection = CollectionOf(Records(fs)[k])
              ELSE ret.result = <<>>

\* get_by_id answered not-found for an id that is in the table, owned by
\* someone else.
C3_Witness ==
  /\ Returned("get_by_id")
  /\ ret.result = <<>>
  /\ \E k \in 1..Len(Records(fs)) :
        /\ IdOf(Records(fs)[k]) = Str(ret.a.card_id)
        /\ ~SameOwner(OwnerOf(Records(fs)[k]), ret.a.user_email)
  /\ \E k \in 1..Len(Records(fs)) : SameOwner(OwnerOf(Records(fs)[k]), ret.a.user_email)

(* C5: update returns true exactly when the table holds a row matching id
   and owner, and delete returns true exactly when such a row was removed;
   for an unknown id or another user's id both return false. *)
C5_ReturnsWhetherMatched ==
  (Returned("update") \/ Returned("delete")) =>
     (ret.result <=>
        \E k \in 1..Len(Records(old)) :
           Owned(Records(old)[k], ret.a.card_id, ret.a.user_email))

(* C7, as claimed: every create returns an id strictly greater than the id
   returned by every earlier create. *)
C7_Original ==
  Returned("create") => \A i \in hist.issued : i < ret.result

(* C7, amended: every create returns an id strictly greater than the id of
   every card in the table, and so than the id returned by every earlier
   create whose id is still in the table. *)
C7_GreaterThanStored ==
  Returned("create") =>
     /\ \A k \in 1..Len(Records(old)) :
           IntParses(IdOf(Records(old)[k])) => IntOf(IdOf(Records(old)[k])) < ret.result
     /\ \A i \in hist.issued :
           (\E k \in 1..Len(Records(old)) : IdOf(Records(old)[k]) = Str(i)) => i < ret.result

\* A create after a delete, on a table that still holds an earlier card.
C7_Witness ==
  /\ Returned("create")
  /\ Len(Records(old)) > 0
  /\ \E i \in hist.issued : \A k \in 1..Len(Records(old)) : IdOf(Records(old)[k]) # Str(i)
  /\ \E i \in hist.issued : \E k \in 1..Len(Records(old)) : IdOf(Records(old)[k]) = Str(i)

(* C4: on a card whose image is set, update with '' for the image argument
   clears the stored image, and update without the image argument leaves the
   stored image as it was; for image_question and for image_answer. *)
C4_OmittedImageKept ==
  Returned("update") =>
     \A k \in 1..Len(Records(old)) :
        Owned(Records(old)[k], ret.a.card_id, ret.a.user_email) =>
           /\ (ImageQuestionOf(Records(old)[k]) # "" /\ ret.a.image_question = "")
                 => ImageQuestionOf(Records(fs)[k]) = ""
           /\ (ImageQuestionOf(Records(old)[k]) # "" /\ ret.a.image_question = Omitted)
                 => ImageQuestionOf(Records(fs)[k]) = ImageQuestionOf(Records(old)[k])
           /\ (ImageAnswerOf(Records(old)[k]) # "" /\ ret.a.image_answer = "")
                 => ImageAnswerOf(Records(fs)[k]) = ""
           /\ (ImageAnswerOf(Records(old)[k]) # "" /\ ret.a.image_answer = Omitted)
                 => ImageAnswerOf(Records(fs)[k]) = ImageAnswerOf(Records(old)[k])

(* C6: delete_collection(name, email) removes every row whose collection is
   exactly name and whose owner is email ignoring case, and leaves every
   other row, with its fields and in its order. *)
Doomed(rec, collection_name, user_email) ==
  CollectionOf(rec) = collection_name /\ SameOwner(OwnerOf(rec), user_email)

C6_DeleteCollectionFrame ==
  Returned("delete_collection") /\ exists(old, FLASHCARDS_CSV) =>
     LET before == Records(old)
         after == Records(fs)
         kept == {k \in 1..Len(before) :
                    ~Doomed(before[k], ret.a.collection_name, ret.a.user_email)}
     IN  /\ CurrentSchema(fs)
         /\ Len(after) = Cardinality(kept)
         /\ \A k \in kept : after[Cardinality({j \in kept : j <= k})] = before[k]

\* A collection was deleted from a table that also held the same name under
\* another owner and the caller's own collection spelled in another case.
C6_Witness ==
  /\ Returned("delete_collection")
  /\ Len(Records(fs)) < Len(Records(old))
  /\ \E k \in 1..Len(Records(fs)) :
        /\ CollectionOf(Records(fs)[k]) = ret.a.collection_name
        /\ ~SameOwner(OwnerOf(Records(fs)[k]), ret.a.user_email)
  /\ \E k \in 1..Len(Records(fs)) :
        /\ CollectionOf(Records(fs)[k]) # ret.a.collection_name
        /\ Lower(CollectionOf(Records(fs)[k])) = Lower(ret.a.collection_name)
        /\ SameOwner(OwnerOf(Records(fs)[k]), ret.a.user_email)

(* C8: next_id returns 1 on an absent table or one without rows, otherwise
   one more than the largest id among the rows whose id is an integer (the
   other rows ignored; 0 stands for the largest when there is none); create
   stores the new card under that id and returns it. *)
ParsedIds(f) ==
  {IntOf(IdOf(Records(f)[k])) : k \in {j \in 1..Len(Records(f)) : IntParses(IdOf(Records(f)[j]))}}

ExpectedNextId(f) == IF ParsedIds(f) = {} THEN 1 ELSE Max(ParsedIds(f)) + 1

C8_NextId ==
  /\ Returned("next_id") =>
        /\ (Records(old) = <<>> => ret.result = 1)
        /\ ret.result = ExpectedNextId(old)
        /\ \A i \in ParsedIds(old) : i < ret.result
  /\ Returned("create") =>
        /\ (Records(old) = <<>> => ret.result = 1)
        /\ ret.result = ExpectedNextId(old)
        /\ Len(Records(fs)) = Len(Records(old)) + 1
        /\ \A k \in 1..Len(Records(old)) : Records(fs)[k] = Records(old)[k]
        /\ IdOf(Records(fs)[Len(Records(fs))]) = Str(ret.result)
        /\ OwnerOf(Records(fs)[Len(Records(fs))]) = ret.a.user_email

\* A create on a table holding ids 1, 2 and 5 and nothing larger, or on one
\* holding a row whose id is no integer beside one whose id is.
C8_Witness ==
  /\ Returned("create")
  /\ \/ {IdOf(Records(old)[k]) : k \in 1..Len(Records(old))} = {"1", "2", "5"}
     \/ /\ \E k \in 1..Len(Records(old)) : ~IntParses(IdOf(Records(old)[k]))
        /\ \E k \in 1..Len(Records(old)) : IdOf(Records(old)[k]) = "05"
  /\ ret.result = 6

(* C9: migrating a legacy file (user_email, question, answer, created_at)
   of n rows leaves the file under the current nine-column header with the
   same n rows in the same order, ids 1..n in file order, name, images and
   collection empty and the four legacy fields kept; a backup file then
   holds the legacy content. *)
LegacyFile(f) ==
  /\ exists(f, FLASHCARDS_CSV)
  /\ f[FLASHCARDS_CSV] # <<>>
  /\ f[FLASHCARDS_CSV][1] = LegacyHeader
  /\ \A k \in 1..Len(Records(f)) : Len(Records(f)[k]) = Len(LegacyHeader)

C9_MigrateLegacy ==
  ret.op = "migrate" /\ LegacyFile(old) =>
     /\ ~ret.raised
     /\ CurrentSchema(fs)
     /\ Len(Records(fs)) = Len(Records(old))
     /\ \A k \in 1..Len(Records(old)) :
           LET o == Records(old)[k]
           IN  Records(fs)[k] = <<Str(k), o[1], "", o[2], o[3], "", "", "", o[4]>>
     /\ \E p \in DOMAIN fs \ {FLASHCARDS_CSV} : fs[p] = old[FLASHCARDS_CSV]

\* A legacy file of two rows, of two owners, was migrated.
C9_Witness ==
  /\ ret.op = "migrate"
  /\ LegacyFile(old)
  /\ Len(Records(old)) = 2
  /\ OwnerOf(Records(fs)[1]) # OwnerOf(Records(fs)[2])

(* C10: once a migration run has completed, every later run, whatever
   flashcard operations came between, leaves the flashcards file as it is
   and creates no backup file. *)
C10_MigrateIdempotent ==
  ret.op = "migrate" /\ hist.migrated => ~ret.raised /\ fs = old

\* A second run, after a run that migrated two legacy rows, and a create
\* after it.
C10_Witness ==
  /\ ret.op = "migrate"
  /\ hist.migrated
  /\ exists(fs, BackupPlain)
  /\ fs[BackupPlain][1] = LegacyHeader
  /\ Len(fs[BackupPlain]) = 3
  /\ \A k \in 2..3 : Len(fs[BackupPlain][k]) = Len(LegacyHeader)
  /\ CurrentSchema(fs)
  /\ \E i \in hist.issued : \E k \in 1..Len(Records(fs)) :
        IdOf(Records(fs)[k]) = Str(i) /\ Records(fs)[k][4] = "2+2?"

(* C2: after any sequence of register calls the users table never holds two
   rows whose emails are equal ignoring case: a register call with its other
   fields valid and an email equal, ignoring case, to a stored one appends
   no row, and when it returns it has failed with the duplicate-email
   reason. *)
\* The rows of the users table: the records of the file that hold the four
\* fields of a user, which are the records registrations have appended in
\* full; the header init_users_csv wrote is none of them.
UserRecords(f) ==
  IF ~exists(f, USERS_CSV) THEN <<>>
  ELSE LET recs == CsvParse(f[USERS_CSV])
           rows == IF recs # <<>> /\ recs[1] = UsersHeader THEN Tail(recs) ELSE recs
       IN  SelectSeq(rows, LAMBDA rec : Len(rec) = Len(UsersHeader))

C2_NoDuplicateEmail ==
  /\ \A i, j \in 1..Len(UserRecords(fs)) :
        i # j => ~SameOwner(UserRecords(fs)[i][2], UserRecords(fs)[j][2])
  /\ ( /\ ret.op = "register"
       /\ ret.a.name # "" /\ ret.a.email # "" /\ ret.a.password # ""
       /\ ret.a.password = ret.a.confirm_password
       /\ StrLen(ret.a.password) >= MinPasswordLen
       /\ \E k \in 1..Len(UserRecords(old)) : SameOwner(UserRecords(old)[k][2], ret.a.email) )
     => /\ fs = old
        /\ ~ret.raised =>
              ret.result =
                "Email already registered! Please use a different email or try logging in."

(* C11: when the rename to the backup name fails, the run ends with the
   flashcards file as it was and nothing written; and in every state during
   or after a migration run, also one that failed at a later step, a backup
   file holds the complete content of each file a run has renamed away, so
   the rows are never left only in a partly written file. *)
BackedUp(content) ==
  \E p \in DOMAIN fs \ {FLASHCARDS_CSV} : fs[p] = content

C11_OriginalKept ==
  /\ (ret.op = "migrate" /\ ret.raised /\ ret.a.at = "rename") => fs = old
  /\ \A content \in hist.originals :
        Len(CsvParse(content)) > 1 => BackedUp(content)

(* C12: update(id, email, ...) and delete(id, email) touch only the rows
   whose id is id and whose owner is email ignoring case: update rewrites
   those rows with the new values and delete removes them, every other row
   keeps its fields and its place among the others, and when no row matches
   the file after the call is the file before it. *)
C12_UpdateDeleteFrame ==
  (Returned("update") \/ Returned("delete")) /\ exists(old, FLASHCARDS_CSV) =>
     LET before == Records(old)
         after == Records(fs)
         hit == {k \in 1..Len(before) : Owned(before[k], ret.a.card_id, ret.a.user_email)}
         kept == (1..Len(before)) \ hit
     IN  /\ CurrentSchema(fs)
         /\ hit = {} => fs = old
         /\ ret.op = "update" =>
               /\ Len(after) = Len(before)
               /\ \A k \in kept : after[k] = before[k]
               /\ \A k \in hit :
                     /\ IdOf(after[k]) = IdOf(before[k])
                     /\ OwnerOf(after[k]) = OwnerOf(before[k])
                     /\ after[k][4] = ret.a.question
                     /\ CollectionOf(after[k]) = ret.a.collection
                     /\ after[k][9] = before[k][9]
         /\ ret.op = "delete" =>
               /\ Len(after) = Cardinality(kept)
               /\ \A k \in kept : after[Cardinality({j \in kept : j <= k})] = before[k]

\* A delete took the caller's card, stored under another spelling of the
\* email, from between a card of another owner with the same id and a card
\* whose id is no integer.
C12_Witness ==
  /\ Returned("delete")
  /\ Len(Records(old)) = 3
  /\ Len(Records(fs)) = 2
  /\ Owned(Records(old)[2], ret.a.card_id, ret.a.user_email)
  /\ OwnerOf(Records(old)[2]) # ret.a.user_email
  /\ IdOf(Records(fs)[1]) = Str(ret.a.card_id)
  /\ ~SameOwner(OwnerOf(Records(fs)[1]), ret.a.user_email)
  /\ ~IntParses(IdOf(Records(fs)[2]))

(* C13: the migration step runs before any flashcard read: every request
   whose handler reaches a flashcard operation (listing the cards and the
   collections, get_by_id, next_id within create, update, delete,
   delete_collection) has a migration run on the table before that
   operation, so the table the operation reads or appends to never has the
   legacy header. *)
ReachesService ==
  /\ ret.op \in {"practice", "add_flashcard", "edit_flashcard",
                 "delete_flashcard_route", "delete_collection_route"}
  /\ ret.a.session # NoUser
  /\ ret.op \in {"add_flashcard", "edit_flashcard"} =>
        (ret.op = "edit_flashcard" /\ ret.a.method = "GET")
        \/ ~(Falsy(ret.a.form.question) \/ Falsy(ret.a.form.answer))

\* The files as the flashcard operation of the last request found them.
FilesRead ==
  IF ret.op = "practice" THEN migrate_flashcards_csv(old, ret.a.t).fs ELSE old

HasLegacyHeader(f) ==
  exists(f, FLASHCARDS_CSV) /\ f[FLASHCARDS_CSV] # <<>>
  /\ f[FLASHCARDS_CSV][1] = LegacyHeader

C13_MigratedBeforeRead ==
  ReachesService => ~HasLegacyHeader(FilesRead)

(* C14: no migration run overwrites a backup file: when a run renames the
   flashcards file away and a backup is there already, under the plain name
   or under a name with a clock reading, also one of the same second, the
   name the run takes was not in use and every file that was there keeps
   its content. *)
C14_BackupsKept ==
  (ret.op = "migrate_running" \/ (ret.op = "migrate" /\ ret.a.at # "check")) =>
     /\ \A p \in DOMAIN old \ {FLASHCARDS_CSV} : p \in DOMAIN fs /\ fs[p] = old[p]
     /\ \A th \in DOMAIN calls : calls[th].backup_file \notin DOMAIN old

(* C15: when two updates on different rows have both read the table
   before either rewrites it, the table after both have returned is the
   rewrite of the one that wrote last, the row the other one changed is as
   it was before, and both have returned success. *)
HitRows(th) ==
  {k \in 1..Len(calls[th].found) :
     RowMatches(calls[th].found[k], calls[th].a.card_id, calls[th].a.user_email)}

RacedOnDifferentRows ==
  /\ DOMAIN calls = Threads
  /\ \A th \in Threads : calls[th].pc = "returned" /\ calls[th].alone
  /\ \A th \in Threads : HitRows(th) # {}
  /\ HitRows(1) \cap HitRows(2) = {}

C15_LastWriterWins ==
  RacedOnDifferentRows =>
     \E w \in Threads :
        LET o == CHOOSE th \in Threads : th # w
        IN  /\ calls[w].last
            /\ fs[FLASHCARDS_CSV] =
                  CsvText(<<FlashcardsHeader>> \o CardRecords(calls[w].flashcards))
            /\ \A k \in HitRows(o) :
                  CsvParse(fs[FLASHCARDS_CSV])[k + 1] = CardRecord(calls[w].found[k])
            /\ \A th \in Threads : ~calls[th].raised /\ calls[th].result = TRUE

====
